---- MODULE Spec2Model ----
(***************************************************************************)
(* Model of src/api/common/httpApiClient.ts: the axios-backed HttpApiClient *)
(* (six request operations, the response interceptor, the promise wrapper   *)
(* createHttpApiResponse) and the normalized error AxiosHttpApiErrorImpl.   *)
(*                                                                          *)
(* JavaScript values.  An optional value is a sequence of length <= 1:      *)
(* None is `undefined`, Some(v) is v.  Strings are TLA+ strings, so the     *)
(* empty string "" is a defined but falsy value, as in JavaScript.          *)
(* Objects carry a `class` field naming their constructor.  A request       *)
(* configuration is a mutable object: configs[c] is the object created for  *)
(* call c and Some(c) is a reference to it.                                 *)
(***************************************************************************)
EXTENDS Integers, Sequences, FiniteSets, TLC

VARIABLES
  instance,        \* the AxiosInstance owned by the client (baseURL, interceptors)
  pc,              \* per call: idle, inflight, transportSettled, intercepted, done
  call,            \* per call: the operation invoked and its arguments
  configs,         \* per call: the request configuration object handed to the transport
  transportCalls,  \* per call: number of instance.<method>() calls issued
  settled,         \* per call: what the transport settled with (response or failure)
  chain,           \* per call: the promise returned by instance.<method>()
  promise,         \* per call: the promise returned to the caller
  settleCount,     \* per call: number of resolve()/reject() invocations on that promise
  answer           \* per call: result of the last query made on the rejection value

vars == <<instance, pc, call, configs, transportCalls, settled, chain, promise,
          settleCount, answer>>

\* ---------------------------------------------------------------- bounds
NumCalls == 2
MaxFiles == 2

Calls == 1..NumCalls

\* ---------------------------------------------------------------- JS values
None == <<>>
Some(v) == <<v>>

\* JavaScript truthiness of an optional string: defined and not the empty string.
Truthy(opt) == opt # None /\ opt[1] # ""

serverUrl == "https://api.trend.kimhwan.kr"
apiBaseUrl == serverUrl \o "/api/"

Pending == [state |-> "pending", value |-> None]
Fulfilled(v) == [state |-> "fulfilled", value |-> Some(v)]
Rejected(e) == [state |-> "rejected", value |-> Some(e)]

NoAnswer == [query |-> "none"]

\* ---------------------------------------------------------------- inputs
ResourcePath == "users"
Blobs == {"blob1", "blob2"}
FieldNames == {"files", "image"}

RECURSIVE SeqsUpTo(_, _)
SeqsUpTo(S, n) ==
  IF n = 0 THEN {<<>>}
  ELSE LET shorter == SeqsUpTo(S, n - 1)
       IN shorter \cup {Append(s, x) : s \in {t \in shorter : Len(t) = n - 1}, x \in S}

\* inputs of the concurrent specification (kept small: several calls interleave)
Uris == {"/users/1"}
Params == {None}
Headers == {None}
RequestModels == {"null"}
UploadNames == {"files"}
UploadFiles == {<<"blob1", "blob2">>}

\* inputs of the single-call specification (wide)
WideParams == {None, Some("page=1")}
WideRequestModels == {"undefined", "null", "dto"}
WideUploadFiles == SeqsUpTo(Blobs, MaxFiles)

\* ---------------------------------------------------------------- transport results
StatusText(s) ==
  CASE s = 200 -> "OK"
    [] s = 400 -> "Bad Request"
    [] s = 401 -> "Unauthorized"
    [] s = 403 -> "Forbidden"
    [] s = 404 -> "Not Found"
    [] s = 409 -> "Conflict"
    [] OTHER   -> "Internal Server Error"

AxiosResponse(status, data) ==
  [class |-> "AxiosResponse", status |-> status, statusText |-> StatusText(status),
   data |-> data]

\* AxiosError(message, code, config, request, response)
AxiosError(message, config, response) ==
  [class |-> "AxiosError", message |-> message, config |-> config, response |-> response]

Error(message) == [class |-> "Error", message |-> message]

ErrorResponseDto(name, message) == [name |-> name, message |-> message]

\* response bodies a server can send with an error status
ErrorBodies ==
  { None,
    Some(ErrorResponseDto(None, None)),
    Some(ErrorResponseDto(Some("NotFound"), Some("no such user"))),
    Some(ErrorResponseDto(Some("Empty"), Some(""))),
    Some(ErrorResponseDto(None, Some("only message"))) }

ErrorStatuses == {400, 401, 403, 404, 409, 500}

\* failures of call c, as the promise chain delivers them to the response interceptor
ServerErrors(c, statuses, bodies) ==
  { AxiosError("Request failed with status code", Some(c), Some(AxiosResponse(s, b)))
      : s \in statuses, b \in bodies }
NetworkErrors(c, messages) == { AxiosError(m, Some(c), None) : m \in messages }
SetupErrors(messages) == { Error(m) : m \in messages }

Failures(c) ==
  ServerErrors(c, {404}, {Some(ErrorResponseDto(Some("NotFound"), Some("no such user")))})
    \cup NetworkErrors(c, {"Network Error"})
    \cup SetupErrors({"Converting circular structure to JSON"})

WideFailures(c) ==
  ServerErrors(c, ErrorStatuses, ErrorBodies)
    \cup NetworkErrors(c, {"Network Error", ""})
    \cup SetupErrors({"Converting circular structure to JSON", ""})

Responses == { AxiosResponse(200, "payload1") }
WideResponses == { AxiosResponse(200, d) : d \in {"payload1", "payload2", "empty"} }

\* ---------------------------------------------------------------- AxiosHttpApiErrorImpl
isAxiosError(error) == error.class = "AxiosError"

\* variant: the server's name and message land in each other's field
AxiosHttpApiErrorImplSwapped(error) ==
  LET response == error.response
      data == IF response = None THEN None ELSE response[1].data
  IN [class |-> "AxiosHttpApiErrorImpl",
      statusCode |-> IF response = None THEN None ELSE Some(response[1].status),
      statusText |-> IF response = None THEN None ELSE Some(response[1].statusText),
      serverErrorCode |-> IF data = None THEN None ELSE data[1].message,
      serverErrorMessage |-> IF data = None THEN None ELSE data[1].name,
      name |-> "HttpApiError",
      message |-> error.message,
      config |-> error.config]

\* constructor(error: AxiosError<ErrorResponseDto>); `?.` yields undefined on undefined
AxiosHttpApiErrorImpl(error) ==
  LET response == error.response
      data == IF response = None THEN None ELSE response[1].data
  IN [class |-> "AxiosHttpApiErrorImpl",
      statusCode |-> IF response = None THEN None ELSE Some(response[1].status),
      statusText |-> IF response = None THEN None ELSE Some(response[1].statusText),
      serverErrorCode |-> IF data = None THEN None ELSE data[1].name,
      serverErrorMessage |-> IF data = None THEN None ELSE data[1].message,
      name |-> "HttpApiError",
      message |-> error.message,
      config |-> error.config]

DefaultErrorMessage == "service has a temporary problem, try again"

\* variant: the generic message is preferred over the server's message
getErrorMessageGenericFirst(this, arg) ==
  LET defaultErrorMessage == IF arg = None THEN DefaultErrorMessage ELSE arg[1]
  IN IF this.message # "" THEN this.message
     ELSE IF Truthy(this.serverErrorMessage) THEN this.serverErrorMessage[1]
     ELSE defaultErrorMessage

\* getErrorMessage(defaultErrorMessage = <default>); arg = None is an omitted argument
getErrorMessage(this, arg) ==
  LET defaultErrorMessage == IF arg = None THEN DefaultErrorMessage ELSE arg[1]
  IN IF Truthy(this.serverErrorMessage) THEN this.serverErrorMessage[1]
     ELSE IF this.message # "" THEN this.message
     ELSE defaultErrorMessage

isUnauthorized(this) == this.statusCode = Some(401)
isForbidden(this) == this.statusCode = Some(403)
isNotFound(this) == this.statusCode = Some(404)
\* variant: isConflict tests the wrong status
isConflictWrongStatus(this) == this.statusCode = Some(404)
isConflict(this) == this.statusCode = Some(409)

\* ---------------------------------------------------------------- AxiosHttpApiClientImpl
\* constructor(uri): axios.create({baseURL}) followed by setInterceptors(instance)
setInterceptors(inst) ==
  [inst EXCEPT !.requestInterceptors = @ + 1, !.responseInterceptors = @ + 1]

AxiosHttpApiClientImpl(uri) ==
  setInterceptors([baseURL |-> apiBaseUrl \o uri,
                   requestInterceptors |-> 0, responseInterceptors |-> 0])

buildAxiosRequestConfig(params, headers) == [params |-> params, headers |-> headers]

NoData == [kind |-> "none"]
JsonData(requestModel) == [kind |-> "json", value |-> requestModel]
FormData(entries) == [kind |-> "form", entries |-> entries]

\* variant: FormData.set(name, value), which replaces the entries of that name
FormDataSet(form, name, file) ==
  SelectSeq(form, LAMBDA e : e.key # name) \o <<[key |-> name, value |-> file]>>

\* FormData.append(name, value): a new entry at the end, existing entries kept
FormDataAppend(form, name, file) == Append(form, [key |-> name, value |-> file])

\* files.forEach((file) => form.append(name, file))
RECURSIVE AppendAll(_, _, _)
AppendAll(form, name, files) ==
  IF files = <<>> THEN form
  ELSE AppendAll(FormDataAppend(form, name, Head(files)), name, Tail(files))

\* request interceptor, success handler: the configuration passes unchanged.
\* Its failure handler (error => Promise.reject(error)) is never invoked: it is
\* the only request interceptor and the chain starts from a fulfilled promise.
RequestFulfilled(config) == config

\* this.instance.<method>(uri, data, config) wrapped by createHttpApiResponse:
\* the transport receives one request whose configuration merges the
\* instance defaults, the method, the uri, the body and the built config;
\* the caller gets a fresh pending promise.
Issue(c, op, args, method, uri, data, config) ==
  /\ pc[c] = "idle"
  /\ pc' = [pc EXCEPT ![c] = "inflight"]
  /\ call' = [call EXCEPT ![c] = Some([op |-> op, uri |-> uri, args |-> args])]
  /\ configs' = [configs EXCEPT ![c] =
        Some(RequestFulfilled([baseURL |-> instance.baseURL, method |-> method,
                               url |-> uri, data |-> data, params |-> config.params,
                               headers |-> config.headers, retryCount |-> None]))]
  /\ transportCalls' = [transportCalls EXCEPT ![c] = @ + 1]
  /\ promise' = [promise EXCEPT ![c] = Pending]
  /\ UNCHANGED <<instance, settled, chain, settleCount, answer>>

getRequest(c, uri, params, headers) ==
  Issue(c, "getRequest", None, "get", uri, NoData, buildAxiosRequestConfig(params, headers))

deleteRequest(c, uri, params, headers) ==
  Issue(c, "deleteRequest", None, "delete", uri, NoData,
        buildAxiosRequestConfig(params, headers))

patchRequest(c, uri, params, requestModel, headers) ==
  Issue(c, "patchRequest", None, "patch", uri, JsonData(requestModel),
        buildAxiosRequestConfig(params, headers))

postRequest(c, uri, params, requestModel, headers) ==
  Issue(c, "postRequest", None, "post", uri, JsonData(requestModel),
        buildAxiosRequestConfig(params, headers))

putRequest(c, uri, params, requestModel, headers) ==
  Issue(c, "putRequest", None, "put", uri, JsonData(requestModel),
        buildAxiosRequestConfig(params, headers))

uploadFileRequest(c, uri, name, files, params, headers) ==
  LET form == AppendAll(<<>>, name, files)
  IN Issue(c, "uploadFileRequest", Some([name |-> name, files |-> files]), "post", uri,
           FormData(form), buildAxiosRequestConfig(params, headers))

\* ---------------------------------------------------------------- the transport settles
\* the request was sent and answered with a 2xx response
TransportResolve(c, response) ==
  /\ pc[c] = "inflight"
  /\ pc' = [pc EXCEPT ![c] = "transportSettled"]
  /\ settled' = [settled EXCEPT ![c] = Some(response)]
  /\ UNCHANGED <<instance, call, configs, transportCalls, chain, promise, settleCount,
                 answer>>

\* the request failed: error status, no response, or an exception before sending
TransportReject(c, error) ==
  /\ pc[c] = "inflight"
  /\ pc' = [pc EXCEPT ![c] = "transportSettled"]
  /\ settled' = [settled EXCEPT ![c] = Some(error)]
  /\ UNCHANGED <<instance, call, configs, transportCalls, chain, promise, settleCount,
                 answer>>

\* ---------------------------------------------------------------- response interceptor
\* (response) => response
ResponseFulfilled(c) ==
  /\ pc[c] = "transportSettled"
  /\ settled[c][1].class = "AxiosResponse"
  /\ pc' = [pc EXCEPT ![c] = "intercepted"]
  /\ chain' = [chain EXCEPT ![c] = Fulfilled(settled[c][1])]
  /\ UNCHANGED <<instance, call, configs, transportCalls, settled, promise, settleCount,
                 answer>>

\* variant: the failure handler keeps the latest error in a slot shared by all calls
ResponseRejectedShared(c) ==
  /\ pc[c] = "transportSettled"
  /\ settled[c][1].class # "AxiosResponse"
  /\ pc' = [pc EXCEPT ![c] = "intercepted"]
  /\ LET others == {d \in Calls : d # c /\ chain[d].state = "rejected"}
         error == settled[c][1]
     IN chain' = [chain EXCEPT ![c] =
           IF others = {}
           THEN Rejected(AxiosHttpApiErrorImpl(
                  IF isAxiosError(error) THEN error ELSE AxiosError(error.message, None, None)))
           ELSE chain[CHOOSE d \in others : TRUE]]
  /\ UNCHANGED <<instance, call, configs, transportCalls, settled, promise, settleCount,
                 answer>>

\* variant: the failure handler passes the failure on as it received it
ResponseRejectedRaw(c) ==
  /\ pc[c] = "transportSettled"
  /\ settled[c][1].class # "AxiosResponse"
  /\ chain' = [chain EXCEPT ![c] = Rejected(settled[c][1])]
  /\ pc' = [pc EXCEPT ![c] = "intercepted"]
  /\ UNCHANGED <<instance, call, configs, transportCalls, settled, promise, settleCount,
                 answer>>

\* variant: the failure handler re-issues a failed request once, counting in retryCount
ResponseRejectedRetry(c) ==
  /\ pc[c] = "transportSettled"
  /\ settled[c][1].class # "AxiosResponse"
  /\ IF configs[c][1].retryCount = None
     THEN /\ configs' = [configs EXCEPT ![c] = Some([@[1] EXCEPT !.retryCount = Some(1)])]
          /\ transportCalls' = [transportCalls EXCEPT ![c] = @ + 1]
          /\ settled' = [settled EXCEPT ![c] = None]
          /\ pc' = [pc EXCEPT ![c] = "inflight"]
          /\ UNCHANGED chain
     ELSE /\ chain' = [chain EXCEPT ![c] = Rejected(AxiosHttpApiErrorImpl(
                 IF isAxiosError(settled[c][1]) THEN settled[c][1]
                 ELSE AxiosError(settled[c][1].message, None, None)))]
          /\ pc' = [pc EXCEPT ![c] = "intercepted"]
          /\ UNCHANGED <<configs, transportCalls, settled>>
  /\ UNCHANGED <<instance, call, promise, settleCount, answer>>

\* async (error) => Promise.reject(new AxiosHttpApiErrorImpl(
\*     axios.isAxiosError(error) ? error : new AxiosError(error.message)))
ResponseRejected(c) ==
  /\ pc[c] = "transportSettled"
  /\ settled[c][1].class # "AxiosResponse"
  /\ LET error == settled[c][1]
         httpApiError == AxiosHttpApiErrorImpl(
            IF isAxiosError(error) THEN error ELSE AxiosError(error.message, None, None))
     IN chain' = [chain EXCEPT ![c] = Rejected(httpApiError)]
  /\ pc' = [pc EXCEPT ![c] = "intercepted"]
  /\ UNCHANGED <<instance, call, configs, transportCalls, settled, promise, settleCount,
                 answer>>

\* ---------------------------------------------------------------- createHttpApiResponse
\* resolve / reject of `new Promise`: only the first settlement takes effect
Resolve(p, v) == IF p.state = "pending" THEN Fulfilled(v) ELSE p
Reject(p, e) == IF p.state = "pending" THEN Rejected(e) ELSE p

\* variant: resolve() is called without the payload
ThenHandlerVoid(c) ==
  /\ pc[c] = "intercepted"
  /\ chain[c].state = "fulfilled"
  /\ pc' = [pc EXCEPT ![c] = "done"]
  /\ promise' = [promise EXCEPT ![c] = [state |-> "fulfilled", value |-> None]]
  /\ settleCount' = [settleCount EXCEPT ![c] = @ + 1]
  /\ UNCHANGED <<instance, call, configs, transportCalls, settled, chain, answer>>

\* .then(response => { resolve(response.data); })
ThenHandler(c) ==
  /\ pc[c] = "intercepted"
  /\ chain[c].state = "fulfilled"
  /\ pc' = [pc EXCEPT ![c] = "done"]
  /\ promise' = [promise EXCEPT ![c] = Resolve(@, chain[c].value[1].data)]
  /\ settleCount' = [settleCount EXCEPT ![c] = @ + 1]
  /\ UNCHANGED <<instance, call, configs, transportCalls, settled, chain, answer>>

\* variant: the catch handler swallows the error and never calls reject()
CatchHandlerSwallow(c) ==
  /\ pc[c] = "intercepted"
  /\ chain[c].state = "rejected"
  /\ pc' = [pc EXCEPT ![c] = "done"]
  /\ UNCHANGED <<instance, call, configs, transportCalls, settled, chain, promise,
                 settleCount, answer>>

\* .catch(error => { reject(error); })
CatchHandler(c) ==
  /\ pc[c] = "intercepted"
  /\ chain[c].state = "rejected"
  /\ pc' = [pc EXCEPT ![c] = "done"]
  /\ promise' = [promise EXCEPT ![c] = Reject(@, chain[c].value[1])]
  /\ settleCount' = [settleCount EXCEPT ![c] = @ + 1]
  /\ UNCHANGED <<instance, call, configs, transportCalls, settled, chain, answer>>

\* ---------------------------------------------------------------- the caller inspects a rejection
HasError(c) == pc[c] = "done" /\ promise[c].state = "rejected"
ErrorOf(c) == promise[c].value[1]

GetErrorMessage(c, arg) ==
  /\ HasError(c)
  /\ answer' = [answer EXCEPT ![c] =
        [query |-> "getErrorMessage", arg |-> arg, result |-> getErrorMessage(ErrorOf(c), arg)]]
  /\ UNCHANGED <<instance, pc, call, configs, transportCalls, settled, chain, promise,
                 settleCount>>

IsUnauthorized(c) ==
  /\ HasError(c)
  /\ answer' = [answer EXCEPT ![c] =
        [query |-> "isUnauthorized", result |-> isUnauthorized(ErrorOf(c))]]
  /\ UNCHANGED <<instance, pc, call, configs, transportCalls, settled, chain, promise,
                 settleCount>>

IsForbidden(c) ==
  /\ HasError(c)
  /\ answer' = [answer EXCEPT ![c] =
        [query |-> "isForbidden", result |-> isForbidden(ErrorOf(c))]]
  /\ UNCHANGED <<instance, pc, call, configs, transportCalls, settled, chain, promise,
                 settleCount>>

IsNotFound(c) ==
  /\ HasError(c)
  /\ answer' = [answer EXCEPT ![c] =
        [query |-> "isNotFound", result |-> isNotFound(ErrorOf(c))]]
  /\ UNCHANGED <<instance, pc, call, configs, transportCalls, settled, chain, promise,
                 settleCount>>

IsConflict(c) ==
  /\ HasError(c)
  /\ answer' = [answer EXCEPT ![c] =
        [query |-> "isConflict", result |-> isConflict(ErrorOf(c))]]
  /\ UNCHANGED <<instance, pc, call, configs, transportCalls, settled, chain, promise,
                 settleCount>>

\* getCustomAxiosRequestConfig(): requestConfig.retryCount ??= 0; return requestConfig.
\* With this.config undefined the assignment throws a TypeError.
GetCustomAxiosRequestConfig(c) ==
  /\ HasError(c)
  /\ LET ref == ErrorOf(c).config
     IN IF ref = None
        THEN /\ answer' = [answer EXCEPT ![c] =
                   [query |-> "getCustomAxiosRequestConfig", threw |-> "TypeError"]]
             /\ UNCHANGED configs
        ELSE LET requestConfig ==
                   IF configs[ref[1]][1].retryCount = None
                   THEN [configs[ref[1]][1] EXCEPT !.retryCount = Some(0)]
                   ELSE configs[ref[1]][1]
             IN /\ configs' = [configs EXCEPT ![ref[1]] = Some(requestConfig)]
                /\ answer' = [answer EXCEPT ![c] =
                      [query |-> "getCustomAxiosRequestConfig", threw |-> "nothing",
                       result |-> requestConfig]]
  /\ UNCHANGED <<instance, pc, call, transportCalls, settled, chain, promise, settleCount>>

\* ---------------------------------------------------------------- specifications
Init ==
  /\ instance = AxiosHttpApiClientImpl(ResourcePath)
  /\ pc = [c \in Calls |-> "idle"]
  /\ call = [c \in Calls |-> None]
  /\ configs = [c \in Calls |-> None]
  /\ transportCalls = [c \in Calls |-> 0]
  /\ settled = [c \in Calls |-> None]
  /\ chain = [c \in Calls |-> Pending]
  /\ promise = [c \in Calls |-> Pending]
  /\ settleCount = [c \in Calls |-> 0]
  /\ answer = [c \in Calls |-> NoAnswer]

\* a caller invokes one of the six operations with arguments from the given sets
Invoke(c, params, models, names, files) ==
  \/ \E u \in Uris, p \in params, h \in Headers : getRequest(c, u, p, h)
  \/ \E u \in Uris, p \in params, h \in Headers : deleteRequest(c, u, p, h)
  \/ \E u \in Uris, p \in params, m \in models, h \in Headers : patchRequest(c, u, p, m, h)
  \/ \E u \in Uris, p \in params, m \in models, h \in Headers : postRequest(c, u, p, m, h)
  \/ \E u \in Uris, p \in params, m \in models, h \in Headers : putRequest(c, u, p, m, h)
  \/ \E u \in Uris, n \in names, f \in files, p \in params, h \in Headers :
       uploadFileRequest(c, u, n, f, p, h)

\* the transport settles the call with one of the given responses or failures
Settle(c, responses, failures) ==
  \/ \E r \in responses : TransportResolve(c, r)
  \/ \E e \in failures : TransportReject(c, e)

\* The interceptor and the then/catch handlers are promise reactions: once
\* enabled, the event loop runs them.  The transport itself may never answer.
Reactions(c) == ResponseFulfilled(c) \/ ResponseRejected(c) \/ ThenHandler(c) \/ CatchHandler(c)

\* several calls on one client, issued and settled in any interleaving
Next ==
  \E c \in Calls :
    \/ Invoke(c, Params, RequestModels, UploadNames, UploadFiles)
    \/ Settle(c, Responses, Failures(c))
    \/ Reactions(c)
    \/ GetCustomAxiosRequestConfig(c)

Spec == Init /\ [][Next]_vars

\* the same calls with the promise reactions scheduled fairly; a failure is a
\* transport failure without response or an exception during request setup
FairFailures(c) ==
  NetworkErrors(c, {"Network Error"}) \cup SetupErrors({"Converting circular structure to JSON"})

FairNext ==
  \E c \in Calls :
    \/ Invoke(c, Params, RequestModels, UploadNames, UploadFiles)
    \/ Settle(c, Responses, FairFailures(c))
    \/ Reactions(c)

FairSpec == Init /\ [][FairNext]_vars /\ \A c \in Calls : WF_vars(Reactions(c))

\* one call with wide inputs, then the caller's queries on the rejection value
SingleCalls == {1}

SingleNext ==
  \E c \in SingleCalls :
    \/ Invoke(c, WideParams, WideRequestModels, FieldNames, WideUploadFiles)
    \/ Settle(c, WideResponses, WideFailures(c))
    \/ Reactions(c)
    \/ \E arg \in {None, Some("fallback")} : GetErrorMessage(c, arg)
    \/ IsUnauthorized(c)
    \/ IsForbidden(c)
    \/ IsNotFound(c)
    \/ IsConflict(c)
    \/ GetCustomAxiosRequestConfig(c)

SingleSpec == Init /\ [][SingleNext]_vars

\* ---------------------------------------------------------------- properties
IsDone(c) == pc[c] = "done"
FailureOf(c) == settled[c][1]
TransportFailed(c) == settled[c] # None /\ settled[c][1].class # "AxiosResponse"
TransportSucceeded(c) == settled[c] # None /\ settled[c][1].class = "AxiosResponse"
OpOf(c) == call[c][1].op
Asked(c, q) == answer[c].query = q

\* C1: whenever the promise returned by any of the six operations is rejected,
\* whatever the kind of failure, the rejection value is an AxiosHttpApiErrorImpl
\* and is not the failure object the transport delivered.
C1_RejectionIsNormalized ==
  \A c \in Calls :
    promise[c].state = "rejected" =>
      /\ promise[c].value[1].class = "AxiosHttpApiErrorImpl"
      /\ promise[c].value[1] # FailureOf(c)

C1_Witness ==
  \E c \in Calls :
    /\ promise[c].state = "rejected"
    /\ FailureOf(c).class = "Error"
    /\ OpOf(c) = "uploadFileRequest"

\* C2: when the transport call succeeds, the caller's promise resolves with
\* exactly response.data of the transport's response.
C2_ResolvesWithPayload ==
  \A c \in Calls :
    (IsDone(c) /\ TransportSucceeded(c)) =>
      /\ promise[c].state = "fulfilled"
      /\ promise[c].value = Some(settled[c][1].data)

C2_Witness ==
  \E c \in Calls :
    /\ IsDone(c)
    /\ TransportSucceeded(c)
    /\ settled[c][1].data = "payload2"
    /\ OpOf(c) = "getRequest"

\* the fallback in effect for a getErrorMessage call
FallbackOf(arg) == IF arg = None THEN DefaultErrorMessage ELSE arg[1]

\* C3 as stated: getErrorMessage(fallback) returns serverErrorMessage when it is
\* present (not undefined), otherwise message when it is present, otherwise fallback.
\* message is a string in every error the client builds, hence always present.
C3_AsStated ==
  \A c \in Calls :
    Asked(c, "getErrorMessage") =>
      answer[c].result =
        IF ErrorOf(c).serverErrorMessage # None THEN ErrorOf(c).serverErrorMessage[1]
        ELSE ErrorOf(c).message

\* C3 (amended): getErrorMessage(fallback) returns serverErrorMessage when it is
\* present and not the empty string, otherwise message when it is not the empty
\* string, otherwise fallback.
C3_MessagePriority ==
  \A c \in Calls :
    Asked(c, "getErrorMessage") =>
      LET e == ErrorOf(c)
      IN answer[c].result =
           IF e.serverErrorMessage # None /\ e.serverErrorMessage # Some("")
           THEN e.serverErrorMessage[1]
           ELSE IF e.message # "" THEN e.message
           ELSE FallbackOf(answer[c].arg)

C3_Witness ==
  \E c \in Calls :
    /\ Asked(c, "getErrorMessage")
    /\ ErrorOf(c).serverErrorMessage = Some("")
    /\ ErrorOf(c).message # ""
    /\ answer[c].result = ErrorOf(c).message

\* C4: isNotFound() is true iff statusCode is 404, isUnauthorized() iff 401,
\* isForbidden() iff 403, isConflict() iff 409; with statusCode undefined each
\* of them returns false.
C4_StatusPredicates ==
  \A c \in Calls :
    LET code == ErrorOf(c).statusCode
        Is(n) == code # None /\ code[1] = n
    IN /\ Asked(c, "isNotFound") => (answer[c].result <=> Is(404))
       /\ Asked(c, "isUnauthorized") => (answer[c].result <=> Is(401))
       /\ Asked(c, "isForbidden") => (answer[c].result <=> Is(403))
       /\ Asked(c, "isConflict") => (answer[c].result <=> Is(409))
       /\ (answer[c].query \in {"isNotFound", "isUnauthorized", "isForbidden", "isConflict"}
             /\ code = None) => answer[c].result = FALSE

C4_Witness ==
  \E c \in Calls :
    /\ Asked(c, "isConflict")
    /\ ErrorOf(c).statusCode = Some(409)
    /\ answer[c].result = TRUE

\* the fields of the Normalized Error are copied from the failure
FieldsCopied(c) ==
  LET e == ErrorOf(c)
      f == FailureOf(c)
      response == IF isAxiosError(f) THEN f.response ELSE None
  IN /\ e.message = f.message
     /\ IF response # None
        THEN /\ e.statusCode = Some(response[1].status)
             /\ e.statusText = Some(response[1].statusText)
             /\ e.serverErrorCode =
                  IF response[1].data = None THEN None ELSE response[1].data[1].name
             /\ e.serverErrorMessage =
                  IF response[1].data = None THEN None ELSE response[1].data[1].message
        ELSE /\ e.statusCode = None
             /\ e.statusText = None
             /\ e.serverErrorCode = None
             /\ e.serverErrorMessage = None

NoResponse(c) == ErrorOf(c).statusCode = None

\* C5 as stated: the fields are copied from the failure, and for a failure
\* without response getErrorMessage("fallback") returns the transport's own
\* message and not "fallback".
C5_AsStated ==
  \A c \in Calls :
    HasError(c) =>
      /\ FieldsCopied(c)
      /\ (Asked(c, "getErrorMessage") /\ answer[c].arg = Some("fallback") /\ NoResponse(c))
           => (answer[c].result = FailureOf(c).message /\ answer[c].result # "fallback")

\* C5 (amended): the fields are copied from the failure (status code and text
\* from the response, server code and message from the body's name and message,
\* all four undefined without a response, message from the failure's message);
\* for a failure without response getErrorMessage("fallback") returns the
\* transport's own message when that message is not empty, and "fallback"
\* when it is empty.
C5_FieldsCopied ==
  \A c \in Calls :
    HasError(c) =>
      /\ FieldsCopied(c)
      /\ (Asked(c, "getErrorMessage") /\ answer[c].arg = Some("fallback") /\ NoResponse(c))
           => answer[c].result =
                IF FailureOf(c).message # "" THEN FailureOf(c).message ELSE "fallback"

C5_Witness ==
  \E c \in Calls :
    /\ HasError(c)
    /\ isAxiosError(FailureOf(c))
    /\ FailureOf(c).response = None
    /\ FailureOf(c).message = "Network Error"
    /\ Asked(c, "getErrorMessage")
    /\ answer[c].arg = Some("fallback")
    /\ answer[c].result = "Network Error"

\* C6: uploadFileRequest(uri, name, files) issues exactly one POST whose form
\* body has one entry per element of files, each under the key name, in the
\* order of files, and nothing else.
C6_UploadForm ==
  \A c \in Calls :
    (call[c] # None /\ OpOf(c) = "uploadFileRequest") =>
      LET args == call[c][1].args[1]
          data == configs[c][1].data
      IN /\ transportCalls[c] = 1
         /\ configs[c][1].method = "post"
         /\ configs[c][1].url = call[c][1].uri
         /\ data.kind = "form"
         /\ Len(data.entries) = Len(args.files)
         /\ \A i \in 1..Len(args.files) :
              data.entries[i] = [key |-> args.name, value |-> args.files[i]]

C6_Witness ==
  \E c \in Calls :
    /\ call[c] # None
    /\ OpOf(c) = "uploadFileRequest"
    /\ call[c][1].args[1].files = <<"blob2", "blob1">>
    /\ configs[c][1].data.entries =
         <<[key |-> "files", value |-> "blob2"], [key |-> "files", value |-> "blob1"]>>

\* C7: no retry: an invoked operation has issued exactly one transport call,
\* also after that call failed; a failed call ends rejected with the Normalized
\* Error; retryCount of the request configuration is unset or 0, never counted up.
C7_NoRetry ==
  \A c \in Calls :
    /\ transportCalls[c] = IF pc[c] = "idle" THEN 0 ELSE 1
    /\ configs[c] # None => configs[c][1].retryCount \in {None, Some(0)}
    /\ (IsDone(c) /\ TransportFailed(c)) =>
         /\ promise[c].state = "rejected"
         /\ promise[c].value[1].class = "AxiosHttpApiErrorImpl"

C7_Witness ==
  \E c \in Calls :
    /\ IsDone(c)
    /\ TransportFailed(c)
    /\ FailureOf(c).message = "Network Error"
    /\ transportCalls[c] = 1
    /\ configs[c][1].retryCount = Some(0)

\* the state of the caller's promise given where the call stands
SettledAsTransport(c) ==
  /\ pc[c] \in {"idle", "inflight"} => (promise[c].state = "pending" /\ settled[c] = None)
  /\ ~IsDone(c) => (promise[c].state = "pending" /\ settleCount[c] = 0)
  /\ IsDone(c) =>
       /\ settleCount[c] = 1
       /\ TransportSucceeded(c) => promise[c].state = "fulfilled"
       /\ TransportFailed(c) => promise[c].state = "rejected"

\* C8: the promise returned by an operation is pending until the transport call
\* has settled, is then resolved (transport success) or rejected (transport
\* failure) by a single resolve/reject, keeps that outcome for ever, and once the
\* transport call has settled the promise eventually settles.
C8_SettlesOnce ==
  /\ [](\A c \in Calls : SettledAsTransport(c))
  /\ [][\A c \in Calls : promise[c].state # "pending" => promise'[c] = promise[c]]_vars
  /\ \A c \in Calls : (pc[c] = "transportSettled") ~> (promise[c].state # "pending")

C8_Witness ==
  \E c, d \in Calls :
    /\ IsDone(c) /\ promise[c].state = "rejected" /\ settleCount[c] = 1
    /\ IsDone(d) /\ promise[d].state = "fulfilled" /\ settleCount[d] = 1

\* what a call's own transport result determines for its caller
OwnOutcome(c) ==
  IF TransportSucceeded(c) THEN Fulfilled(settled[c][1].data)
  ELSE Rejected(AxiosHttpApiErrorImpl(
         IF isAxiosError(FailureOf(c)) THEN FailureOf(c)
         ELSE AxiosError(FailureOf(c).message, None, None)))

\* C9: under every interleaving of several calls on one client, the outcome of
\* each call is the one its own transport result determines, and no operation
\* changes the client's transport configuration (base URL, interceptors).
C9_CallsIndependent ==
  /\ [](\A c \in Calls : IsDone(c) => promise[c] = OwnOutcome(c))
  /\ [][instance' = instance]_vars
  /\ [](instance = AxiosHttpApiClientImpl(ResourcePath))

C9_Witness ==
  \E c, d \in Calls :
    /\ IsDone(c) /\ promise[c].state = "fulfilled"
    /\ pc[d] = "intercepted" /\ chain[d].state = "rejected"

\* C10 as stated: every Normalized Error, for transport and non-transport
\* failures alike, refers to the request configuration of the failed call, and
\* getCustomAxiosRequestConfig() returns that configuration with retryCount 0
\* when it was unset.
C10_ConfigRetained ==
  \A c \in Calls :
    HasError(c) =>
      /\ ErrorOf(c).config = Some(c)
      /\ Asked(c, "getCustomAxiosRequestConfig") =>
           /\ answer[c].threw = "nothing"
           /\ answer[c].result = configs[c][1]
           /\ answer[c].result.retryCount = Some(0)

====
